---- MODULE Spec2Model ----
(***************************************************************************)
(* Linear-region extraction engine of modulo-de-young.                     *)
(*                                                                         *)
(* The module models these programs of the repository:                        *)
(*   - index_auto.py: processar_cp and hunting_E_best_R2 (SpecCP, one      *)
(*     specimen, the window scan one fit per step) and main (SpecBatch);   *)
(*   - index_semiauto_data.py / y_madeira_plastico.py: the fixed-range     *)
(*     selection and fit (SpecRange);                                      *)
(*   - y_flexao.py: the processing loop over the uploaded files            *)
(*     (SpecFlexao);                                                       *)
(*   - index_auto.py / index.py: the cleaning of a raw test table          *)
(*     (SpecLimpeza).                                                      *)
(*                                                                         *)
(* Numbers.  A float that holds a number is an exact fraction <<n, d>>     *)
(* with d > 0 in lowest terms, an integer k that shares a field with NaN   *)
(* is <<k, 1>>; NaN is <<0, 0>>; Python's None is <<>>.  Rounding of       *)
(* IEEE-754 arithmetic is not modelled: two r_squared values compare as    *)
(* the exact rationals do.                                                 *)
(*                                                                         *)
(* Units.  deformacao_especifica is kept in units of 1/L0_MM, so it is     *)
(* -deformacao_mm; tensao_pa is kept in units of MEGA_TO_SI/AreaLcm Pa, so *)
(* it is forca_n * (AreaLcm / area_mm2).  Both are positive rescalings of  *)
(* the source's values, which leave r_squared and the fraction-of-peak     *)
(* selection unchanged.                                                    *)
(*                                                                         *)
(* Scale.  The source scans windows of 1500..4000 samples with a stride of *)
(* 50; the model keeps the code and scales the three configuration values  *)
(* down (MIN_R2_WINDOW_POINTS, R2_WINDOW_SIZES, R2_STEP_SIZE).             *)
(***************************************************************************)
EXTENDS Integers, Sequences, FiniteSets, TLC

\* ---------------------------------------------------------------- bounds
MaxLen == 5       \* longest test table of SpecCP
MaxManifest == 2  \* most rows of geral.csv in SpecBatch
MaxFiles == 2     \* most uploaded files in SpecFlexao
MaxLenFaixa == 3  \* longest table of SpecRange
MaxLenBruta == 3  \* longest raw table of SpecLimpeza

\* ------------------------------------------------- configuration (scaled)
MIN_R2_WINDOW_POINTS == 2
R2_WINDOW_SIZES == <<2, 3, 6>>
R2_STEP_SIZE == 2
PERCENTUAL_MIN_MODULO == 10      \* percent
PERCENTUAL_MAX_MODULO == 40      \* percent
Areas == {1, 2}
\* least common multiple of the areas: the unit of tensao_pa is MEGA_TO_SI/AreaLcm Pa
AreaLcm == CHOOSE m \in 1..4 : (\A a \in Areas : m % a = 0) /\ (\A k \in 1..(m - 1) : \E a \in Areas : k % a # 0)

NaN == <<0, 0>>
None == <<>>

\* ------------------------------------------------------------ arithmetic
Abs(n) == IF n < 0 THEN -n ELSE n

RECURSIVE Gcd(_, _)
Gcd(a, b) == IF b = 0 THEN a ELSE Gcd(b, a % b)

\* the float n/d, d # 0
Frac(n, d) ==
    LET g == Gcd(Abs(n), Abs(d))
        s == IF d < 0 THEN -1 ELSE 1
    IN  <<(s * n) \div g, (s * d) \div g>>

IsNum(v) == v # NaN /\ v # None

\* a > b on floats: any comparison with NaN is False
Gt(a, b) == IsNum(a) /\ IsNum(b) /\ a[1] * b[2] > b[1] * a[2]
Ge(a, b) == IsNum(a) /\ IsNum(b) /\ a[1] * b[2] >= b[1] * a[2]

RECURSIVE SumSeq(_)
SumSeq(s) == IF s = <<>> THEN 0 ELSE Head(s) + SumSeq(Tail(s))

Prod(xs, ys) == [k \in 1..Len(xs) |-> xs[k] * ys[k]]

\* ---------------------------------------------------- scipy.stats.linregress
\* mutant: the line is forced through the origin
linregress_PelaOrigem(xs, ys) ==
    LET n == Len(xs)
        sxx == n * SumSeq(Prod(xs, xs)) - SumSeq(xs) * SumSeq(xs)
        sxy == n * SumSeq(Prod(xs, ys)) - SumSeq(xs) * SumSeq(ys)
        syy == n * SumSeq(Prod(ys, ys)) - SumSeq(ys) * SumSeq(ys)
        ValueError == [raised |-> "ValueError", slope |-> NaN, intercept |-> NaN,
                       r_squared |-> NaN]
    IN  IF n = 0 THEN ValueError
        ELSE IF n > 1 /\ sxx = 0 THEN ValueError
        ELSE [raised |-> "no",
              slope |-> IF sxx = 0 THEN NaN ELSE Frac(sxy, sxx),
              intercept |-> IF sxx = 0 THEN NaN ELSE Frac(0, 1),
              r_squared |-> IF sxx = 0 \/ syy = 0 THEN Frac(0, 1)
                            ELSE Frac(sxy * sxy, sxx * syy)]

\* raises ValueError on empty input and on more than one point with all x
\* identical; r is 0.0 when the variance of x or of y is 0; the slope of a
\* single point is 0/0.
linregress(xs, ys) ==
    LET n == Len(xs)
        sxx == n * SumSeq(Prod(xs, xs)) - SumSeq(xs) * SumSeq(xs)
        sxy == n * SumSeq(Prod(xs, ys)) - SumSeq(xs) * SumSeq(ys)
        syy == n * SumSeq(Prod(ys, ys)) - SumSeq(ys) * SumSeq(ys)
        ValueError == [raised |-> "ValueError", slope |-> NaN, intercept |-> NaN,
                       r_squared |-> NaN]
    IN  IF n = 0 THEN ValueError
        ELSE IF n > 1 /\ sxx = 0 THEN ValueError
        ELSE [raised |-> "no",
              slope |-> IF sxx = 0 THEN NaN ELSE Frac(sxy, sxx),
              intercept |-> IF sxx = 0 THEN NaN
                            ELSE Frac(SumSeq(ys) * sxx - sxy * SumSeq(xs), n * sxx),
              r_squared |-> IF sxx = 0 \/ syy = 0 THEN Frac(0, 1)
                            ELSE Frac(sxy * sxy, sxx * syy)]

\* ------------------------------------------------------------ data tables
\* a raw row is <<deformacao_mm, forca_n>>; a cell is <<v>> when it holds the
\* number v and <<>> when pd.to_numeric could not coerce it
Deformacoes == {0, 1, 2}
\* 1 lies between 10% and 40% of the peak 4
Forcas == {0, 1, 4}
Leituras == {<<(<<d>>), (<<f>>)>> : d \in Deformacoes, f \in Forcas}
LeiturasSujas == {<<(<<>>), (<<1>>)>>, <<(<<1>>), (<<>>)>>}

SeqsUpTo(S, n) == UNION {[1..k -> S] : k \in 0..n}

\* what a test file of SpecCP holds: any clean table up to MaxLen rows, and
\* short tables with uncoercible cells
Tabelas ==
    SeqsUpTo(Leituras, MaxLen) \cup (SeqsUpTo(Leituras \cup LeiturasSujas, 2) \ SeqsUpTo(Leituras, 2))

\* df.dropna(subset=["deformacao_mm", "forca_n"]).reset_index(drop=True)
dropna(tabela) == LET Keep(r) == r[1] # <<>> /\ r[2] # <<>> IN SelectSeq(tabela, Keep)

\* df_ensaio after reset_index: the label idx, and the columns
\* deformacao_especifica (x) and tensao_pa (y)
Converter(tabela, area) ==
    [k \in 1..Len(tabela) |->
        [idx |-> k - 1,
         deformacao_especifica |-> -tabela[k][1][1],
         tensao_pa |-> tabela[k][2][1] * (AreaLcm \div area)]]

X(df) == [k \in 1..Len(df) |-> df[k].deformacao_especifica]
Y(df) == [k \in 1..Len(df) |-> df[k].tensao_pa]

SeqMax(s) == CHOOSE m \in {s[k] : k \in 1..Len(s)} : \A k \in 1..Len(s) : s[k] <= m

\* Series.idxmax(): the 0-based label of the first occurrence of the maximum
idxmax(s) == (CHOOSE k \in 1..Len(s) : s[k] = SeqMax(s) /\ \A j \in 1..(k - 1) : s[j] # SeqMax(s)) - 1

\* mutant: the range is cut by position, from the first to the last sample in it
FiltrarFaixa_Posicao(df, pmin, pmax, peak) ==
    LET In(r) == r.tensao_pa * 100 >= pmin * peak /\ r.tensao_pa * 100 <= pmax * peak
        ks == {k \in 1..Len(df) : In(df[k])}
    IN  IF ks = {} THEN <<>>
        ELSE SubSeq(df, CHOOSE k \in ks : \A j \in ks : k <= j,
                        CHOOSE k \in ks : \A j \in ks : k >= j)

\* df[(df.tensao_pa >= inf) & (df.tensao_pa <= sup)], the bounds being pct/100 * peak
FiltrarFaixa(df, pmin, pmax, peak) ==
    LET Keep(r) == r.tensao_pa * 100 >= pmin * peak /\ r.tensao_pa * 100 <= pmax * peak
    IN  SelectSeq(df, Keep)

\* df.iloc[a:b] for 0 <= a <= b (b clipped to the length)
iloc(df, a, b) == SubSeq(df, a + 1, IF b > Len(df) THEN Len(df) ELSE b)

\* ------------------------------------------------ index_auto.py: one specimen
VARIABLES
    pc,               \* control position
    cp_nome,          \* the specimen: the number in its name "CP n"
    arquivo,          \* the test file: [status, tabela]
    area_mm2,
    df_ensaio,        \* the cleaned, converted curve
    max_sigma_index,
    norma,            \* fixed-range (10%-40%) part of the row
    n_points,         \* len(df_search)
    w,                \* position in R2_WINDOW_SIZES of the outer loop
    i,                \* start index of the inner loop
    best,             \* the six best_*_global locals
    fitted,           \* history: every window handed to linregress, in order
    hunting,          \* the tuple hunting_E_best_R2 returned
    resultado         \* what processar_cp returned

\* index_auto.py / index_semiauto_data.py: main
VARIABLES
    geral,            \* the manifest geral.csv: rows [cp, area, arquivo]
    cp_validos,       \* the rows with a valid area, sorted by cp number
    index,            \* position of the loop in cp_validos (0-based)
    resultados_list   \* the rows collected so far

\* y_flexao.py: the page script
VARIABLES
    uploaded_files,   \* the uploaded files, each the table carregar_dados reads
    faixa,            \* slider: (low, high) percent of Fmax
    tipo_ensaio,      \* radio: "3 Pontos" or "4 Pontos"
    geometria,        \* number inputs: [L, h, b] in mm
    f,                \* position of the loop in uploaded_files (0-based)
    resultados        \* the rows of the results table

\* the fixed-range extraction, run on an input and on a second input that
\* differs from it by one change
VARIABLES
    programa,         \* "semiauto", "auto" or "madeira"
    entrada,          \* [tabela, area, lims]
    variante,         \* how the second input differs: [tipo, k, lims]
    saida1,           \* outcome of the run on entrada
    saida2            \* outcome of the run on the second input

\* the cleaning of a raw test table
VARIABLES
    script,           \* "index_auto" or "index"
    bruta,            \* the rows of the file: <<tempo_s, deformacao_mm, forca_n>>
    limpa             \* df_ensaio after cleaning, each row with its place in the file

\* the loading of a calibration file (fator.py)
VARIABLES
    uploaded_file,    \* [status, linhas]: the uploaded CSV below its header
    df_fator          \* what carregar_e_limpar_dados returned

\* one least-squares fit
VARIABLES
    pontos,           \* the (x, y) points handed to linregress
    ajuste            \* what linregress gave

cponly == <<cp_nome, arquivo, area_mm2, df_ensaio, max_sigma_index, norma, n_points,
            w, i, best, fitted, hunting, resultado>>
loteonly == <<geral, cp_validos, index, resultados_list>>
flexonly == <<uploaded_files, faixa, tipo_ensaio, geometria, f, resultados>>
faixaonly == <<programa, entrada, variante, saida1, saida2>>
limpezaonly == <<script, bruta, limpa>>
fatoronly == <<uploaded_file, df_fator>>
fitonly == <<pontos, ajuste>>

vars == <<pc, cponly, loteonly, flexonly, faixaonly, limpezaonly, fatoronly, fitonly>>

\* the variables of the programs that are not running
CpIdle ==
    /\ cp_nome = 0
    /\ arquivo = [status |-> "missing", tabela |-> <<>>]
    /\ area_mm2 = 1
    /\ df_ensaio = <<>>
    /\ max_sigma_index = -1
    /\ norma = None
    /\ n_points = 0
    /\ w = 1
    /\ i = 0
    /\ best = None
    /\ fitted = <<>>
    /\ hunting = None
    /\ resultado = None

LoteIdle ==
    /\ geral = <<>>
    /\ cp_validos = <<>>
    /\ index = 0
    /\ resultados_list = <<>>

FaixaIdle ==
    /\ programa = "none"
    /\ entrada = None
    /\ variante = None
    /\ saida1 = None
    /\ saida2 = None

LimpezaIdle ==
    /\ script = "none"
    /\ bruta = <<>>
    /\ limpa = <<>>

FatorIdle ==
    /\ uploaded_file = [status |-> "none", linhas |-> <<>>]
    /\ df_fator = None

FitIdle ==
    /\ pontos = <<>>
    /\ ajuste = None

FlexIdle ==
    /\ uploaded_files = <<>>
    /\ faixa = <<0, 0>>
    /\ tipo_ensaio = "3 Pontos"
    /\ geometria = None
    /\ f = 0
    /\ resultados = <<>>

BestInit ==
    [best_r2_global |-> Frac(-1, 1), best_E_global |-> NaN,
     best_intercept_global |-> NaN, best_start_idx_global |-> Frac(-1, 1),
     best_end_idx_global |-> Frac(-1, 1), best_window_size_global |-> Frac(0, 1)]

AllNaN ==
    [best_r2_global |-> NaN, best_E_global |-> NaN,
     best_intercept_global |-> NaN, best_start_idx_global |-> NaN,
     best_end_idx_global |-> NaN, best_window_size_global |-> NaN]

\* mutant: the slice takes the peak sample in
df_search_AtePico == iloc(df_ensaio, 0, max_sigma_index + 1)

\* line 44: df_ensaio.iloc[:max_sigma_index]
df_search == iloc(df_ensaio, 0, max_sigma_index)

\* lines 62-79: fit one window and keep it when strictly better
FitWindow(search, size, start) ==
    LET df_window == iloc(search, start, start + size)
    IN  linregress(X(df_window), Y(df_window))

\* mutant: ties replace the best window
Improves_Ge(r_squared, r2_best) == Ge(r_squared, r2_best)

\* line 72: r_squared > best_r2_global
Improves(r_squared, r2_best) == Gt(r_squared, r2_best)

\* mutant: the intercept of the accepted window is not recorded
Accept_SemIntercepto(fit, df, size, start) ==
    [best_r2_global |-> fit.r_squared, best_E_global |-> fit.slope,
     best_intercept_global |-> NaN,
     best_start_idx_global |-> Frac(df[start + 1].idx, 1),
     best_end_idx_global |-> Frac(df[start + size].idx, 1),
     best_window_size_global |-> Frac(size, 1)]

\* lines 73-79; the indices are labels of df_ensaio: df_ensaio.index[start_idx]
\* and df_ensaio.index[end_idx - 1]
Accept(fit, df, size, start) ==
    [best_r2_global |-> fit.r_squared, best_E_global |-> fit.slope,
     best_intercept_global |-> fit.intercept,
     best_start_idx_global |-> Frac(df[start + 1].idx, 1),
     best_end_idx_global |-> Frac(df[start + size].idx, 1),
     best_window_size_global |-> Frac(size, 1)]

\* mutant: the best window is kept per window size, not across all sizes
Update_PorTamanho(b, fit, df, size, start) ==
    IF fit.raised = "no"
       /\ (Improves(fit.r_squared, b.best_r2_global)
           \/ b.best_window_size_global # Frac(size, 1))
    THEN Accept(fit, df, size, start)
    ELSE b

\* lines 64-83: a fit that raised ValueError is ignored, a strictly better one
\* replaces the six locals together
Update(b, fit, df, size, start) ==
    IF fit.raised = "no" /\ Improves(fit.r_squared, b.best_r2_global)
    THEN Accept(fit, df, size, start)
    ELSE b

\* mutant: the guard is off by one
PoucosPontos_Menos1(search) == Len(search) < MIN_R2_WINDOW_POINTS - 1

\* line 47: n_points < MIN_R2_WINDOW_POINTS
PoucosPontos(search) == Len(search) < MIN_R2_WINDOW_POINTS

\* a test file is absent, unreadable by pd.read_csv, or holds a table
Arquivos(tabelas) ==
    {[status |-> "missing", tabela |-> <<>>], [status |-> "unreadable", tabela |-> <<>>]}
    \cup {[status |-> "ok", tabela |-> t] : t \in tabelas}

CpInit ==
    /\ pc = "cp_start"
    /\ cp_nome = 1
    /\ arquivo \in Arquivos(Tabelas)
    /\ area_mm2 \in Areas
    /\ df_ensaio = <<>>
    /\ max_sigma_index = -1
    /\ norma = None
    /\ n_points = 0
    /\ w = 1
    /\ i = 0
    /\ best = BestInit
    /\ fitted = <<>>
    /\ hunting = None
    /\ resultado = None
    /\ LoteIdle
    /\ FlexIdle
    /\ FaixaIdle
    /\ LimpezaIdle
    /\ FatorIdle
    /\ FitIdle

\* the part of the row that the fixed-range method fills (lines 126-141, 151-156)
Norma(df, peak) ==
    LET df_norma == FiltrarFaixa(df, PERCENTUAL_MIN_MODULO, PERCENTUAL_MAX_MODULO, peak)
        fit == linregress(X(df_norma), Y(df_norma))
        ok == Len(df_norma) >= MIN_R2_WINDOW_POINTS /\ fit.raised = "no"
    IN  [E_Norma |-> IF ok THEN fit.slope ELSE NaN,
         R2_Norma |-> IF ok THEN fit.r_squared ELSE NaN,
         Intercepto_Norma |-> IF ok THEN fit.intercept ELSE NaN,
         Pontos_Norma |-> Frac(Len(df_norma), 1)]

\* processar_cp, lines 88-141: load, clean, convert, guards, fixed-range fit
ProcessarCp_Carregar ==
    /\ pc = "cp_start"
    /\ LET limpo == IF arquivo.status # "ok" THEN <<>> ELSE dropna(arquivo.tabela)
           df == Converter(limpo, area_mm2)
       IN  IF limpo = <<>> \/ SeqMax(Y(df)) <= 0
           THEN /\ pc' = "cp_done"
                /\ resultado' = None
                /\ df_ensaio' = IF limpo = <<>> THEN <<>> ELSE df
                /\ UNCHANGED <<max_sigma_index, norma>>
           ELSE /\ pc' = "hunting_call"
                /\ df_ensaio' = df
                /\ max_sigma_index' = idxmax(Y(df))
                /\ norma' = Norma(df, SeqMax(Y(df)))
                /\ UNCHANGED resultado
    /\ UNCHANGED <<cp_nome, arquivo, area_mm2, n_points, w, i, best, fitted, hunting>>
    /\ UNCHANGED <<loteonly, flexonly, faixaonly, limpezaonly, fatoronly, fitonly>>

\* mutant: the slice of line 44 replaces the caller's curve
Hunting_Entrar_Corta ==
    /\ pc = "hunting_call"
    /\ best' = BestInit
    /\ n_points' = Len(df_search)
    /\ df_ensaio' = df_search
    /\ IF PoucosPontos(df_search)
       THEN /\ hunting' = AllNaN
            /\ pc' = "hunting_ret"
       ELSE /\ pc' = "scan"
            /\ UNCHANGED hunting
    /\ w' = 1
    /\ i' = 0
    /\ UNCHANGED <<cp_nome, arquivo, area_mm2, max_sigma_index, norma, fitted, resultado>>
    /\ UNCHANGED <<loteonly, flexonly, faixaonly, limpezaonly, fatoronly, fitonly>>

\* hunting_E_best_R2, lines 36-48: locals, search domain, minimum-data guard
Hunting_Entrar ==
    /\ pc = "hunting_call"
    /\ best' = BestInit
    /\ n_points' = Len(df_search)
    /\ IF PoucosPontos(df_search)
       THEN /\ hunting' = AllNaN
            /\ pc' = "hunting_ret"
       ELSE /\ pc' = "scan"
            /\ UNCHANGED hunting
    /\ w' = 1
    /\ i' = 0
    /\ UNCHANGED <<cp_nome, arquivo, area_mm2, df_ensaio, max_sigma_index, norma, fitted, resultado>>
    /\ UNCHANGED <<loteonly, flexonly, faixaonly, limpezaonly, fatoronly, fitonly>>

\* lines 53-54: a window size larger than the domain is skipped
Hunting_PularTamanho ==
    /\ pc = "scan"
    /\ w <= Len(R2_WINDOW_SIZES)
    /\ R2_WINDOW_SIZES[w] > n_points
    /\ w' = w + 1
    /\ i' = 0
    /\ UNCHANGED <<pc, cp_nome, arquivo, area_mm2, df_ensaio, max_sigma_index, norma, n_points,
                   best, fitted, hunting, resultado>>
    /\ UNCHANGED <<loteonly, flexonly, faixaonly, limpezaonly, fatoronly, fitonly>>

\* mutant: the window slides by one sample
Hunting_Ajustar_Passo1 ==
    /\ pc = "scan"
    /\ w <= Len(R2_WINDOW_SIZES)
    /\ R2_WINDOW_SIZES[w] <= n_points
    /\ i < n_points - R2_WINDOW_SIZES[w] + 1
    /\ LET size == R2_WINDOW_SIZES[w]
           fit == FitWindow(df_search, size, i)
       IN  /\ best' = Update(best, fit, df_ensaio, size, i)
           /\ fitted' = Append(fitted,
                  [window_size |-> size, start_idx |-> i, raised |-> fit.raised,
                   r_squared |-> fit.r_squared])
    /\ i' = i + 1
    /\ UNCHANGED <<pc, cp_nome, arquivo, area_mm2, df_ensaio, max_sigma_index, norma, n_points,
                   w, hunting, resultado>>
    /\ UNCHANGED <<loteonly, flexonly, faixaonly, limpezaonly, fatoronly, fitonly>>

\* lines 57-83: one iteration of the sliding window
Hunting_Ajustar ==
    /\ pc = "scan"
    /\ w <= Len(R2_WINDOW_SIZES)
    /\ R2_WINDOW_SIZES[w] <= n_points
    /\ i < n_points - R2_WINDOW_SIZES[w] + 1
    /\ LET size == R2_WINDOW_SIZES[w]
           fit == FitWindow(df_search, size, i)
       IN  /\ best' = Update(best, fit, df_ensaio, size, i)
           /\ fitted' = Append(fitted,
                  [window_size |-> size, start_idx |-> i, raised |-> fit.raised,
                   r_squared |-> fit.r_squared])
    /\ i' = i + R2_STEP_SIZE
    /\ UNCHANGED <<pc, cp_nome, arquivo, area_mm2, df_ensaio, max_sigma_index, norma, n_points,
                   w, hunting, resultado>>
    /\ UNCHANGED <<loteonly, flexonly, faixaonly, limpezaonly, fatoronly, fitonly>>

\* line 57: the range of start indices is exhausted
Hunting_ProximoTamanho ==
    /\ pc = "scan"
    /\ w <= Len(R2_WINDOW_SIZES)
    /\ R2_WINDOW_SIZES[w] <= n_points
    /\ i >= n_points - R2_WINDOW_SIZES[w] + 1
    /\ w' = w + 1
    /\ i' = 0
    /\ UNCHANGED <<pc, cp_nome, arquivo, area_mm2, df_ensaio, max_sigma_index, norma, n_points,
                   best, fitted, hunting, resultado>>
    /\ UNCHANGED <<loteonly, flexonly, faixaonly, limpezaonly, fatoronly, fitonly>>

\* lines 85-86: the scan is over, the six locals are returned
Hunting_Retornar ==
    /\ pc = "scan"
    /\ w > Len(R2_WINDOW_SIZES)
    /\ hunting' = best
    /\ pc' = "hunting_ret"
    /\ UNCHANGED <<cp_nome, arquivo, area_mm2, df_ensaio, max_sigma_index, norma, n_points,
                   w, i, best, fitted, resultado>>
    /\ UNCHANGED <<loteonly, flexonly, faixaonly, limpezaonly, fatoronly, fitonly>>

\* the row of lines 147-164
Linha(cp, nm, h) ==
    [CP |-> cp,
     E_Norma |-> nm.E_Norma, R2_Norma |-> nm.R2_Norma,
     Intercepto_Norma |-> nm.Intercepto_Norma, Pontos_Norma |-> nm.Pontos_Norma,
     E_Otimizado |-> h.best_E_global, R2_Otimizado |-> h.best_r2_global,
     Intercepto_Otimizado |-> h.best_intercept_global,
     Pontos_Otimizado |-> h.best_window_size_global,
     Start_Idx_Otimizado |-> h.best_start_idx_global,
     End_Idx_Otimizado |-> h.best_end_idx_global]

ProcessarCp_Retornar ==
    /\ pc = "hunting_ret"
    /\ resultado' = Linha(cp_nome, norma, hunting)
    /\ pc' = "cp_done"
    /\ UNCHANGED <<cp_nome, arquivo, area_mm2, df_ensaio, max_sigma_index, norma, n_points,
                   w, i, best, fitted, hunting>>
    /\ UNCHANGED <<loteonly, flexonly, faixaonly, limpezaonly, fatoronly, fitonly>>

\* the same code as functions, for the loop of main
RECURSIVE ScanFrom(_, _, _, _, _)
ScanFrom(df, search, wi, start, b) ==
    IF wi > Len(R2_WINDOW_SIZES) THEN b
    ELSE IF R2_WINDOW_SIZES[wi] > Len(search) THEN ScanFrom(df, search, wi + 1, 0, b)
    ELSE IF start >= Len(search) - R2_WINDOW_SIZES[wi] + 1
         THEN ScanFrom(df, search, wi + 1, 0, b)
    ELSE ScanFrom(df, search, wi, start + R2_STEP_SIZE,
                  Update(b, FitWindow(search, R2_WINDOW_SIZES[wi], start), df,
                         R2_WINDOW_SIZES[wi], start))

hunting_E_best_R2(df, msi) ==
    LET search == iloc(df, 0, msi)
    IN  IF PoucosPontos(search) THEN AllNaN
        ELSE ScanFrom(df, search, 1, 0, BestInit)

processar_cp(cp, area, arq) ==
    LET limpo == IF arq.status # "ok" THEN <<>> ELSE dropna(arq.tabela)
        df == Converter(limpo, area)
    IN  IF limpo = <<>> \/ SeqMax(Y(df)) <= 0 THEN None
        ELSE Linha(cp, Norma(df, SeqMax(Y(df))), hunting_E_best_R2(df, idxmax(Y(df))))

CpNext ==
    \/ ProcessarCp_Carregar
    \/ Hunting_Entrar
    \/ Hunting_PularTamanho
    \/ Hunting_Ajustar
    \/ Hunting_ProximoTamanho
    \/ Hunting_Retornar
    \/ ProcessarCp_Retornar

SpecCP == CpInit /\ [][CpNext]_vars

\* the step-by-step scan and the functions above are the same code
Lemma_Cp == pc = "cp_done" => resultado = processar_cp(cp_nome, area_mm2, arquivo)

\* ------------------------------------------------------- index_auto.py: main
Row(d, fo) == <<(<<d>>), (<<fo>>)>>

\* the test files of the batch: empty, empty after cleaning, no positive
\* stress, a straight line, a constant deformation reading, a peak on the
\* first sample
TabelasLote ==
    { <<>>,
      << <<(<<>>), (<<1>>)>> >>,
      << Row(0, 0), Row(1, 0) >>,
      << Row(0, 0), Row(1, 1), Row(2, 2) >>,
      << Row(0, 0), Row(0, 1), Row(0, 2) >>,
      << Row(0, 2), Row(1, 1) >> }

\* the area column after pd.to_numeric: a number or NaN (<<>>)
AreasGeral == {<<>>, <<0>>} \cup {<<a>> : a \in Areas}

LinhasGeral(cps) ==
    {[cp |-> c, area |-> a, arquivo |-> q] :
        c \in cps, a \in AreasGeral, q \in Arquivos(TabelasLote)}

\* manifests: up to MaxManifest rows, every specimen number once, any order
Manifestos ==
    {m \in SeqsUpTo(LinhasGeral(1..MaxManifest), MaxManifest) :
        \A j, k \in 1..Len(m) : j # k => m[j].cp # m[k].cp}

\* geral[geral.area.notna() & (geral.area > 0)]
FiltrarArea(g) == LET Keep(r) == r.area # <<>> /\ r.area[1] > 0 IN SelectSeq(g, Keep)

\* sort_values(by="cp_num")
RECURSIVE SortByCp(_)
SortByCp(g) ==
    IF g = <<>> THEN <<>>
    ELSE LET k == CHOOSE j \in 1..Len(g) : \A l \in 1..Len(g) : g[j].cp <= g[l].cp
         IN  <<g[k]>> \o SortByCp(SubSeq(g, 1, k - 1) \o SubSeq(g, k + 1, Len(g)))

LoteInit ==
    /\ pc = "main_start"
    /\ geral \in Manifestos
    /\ cp_validos = <<>>
    /\ index = 0
    /\ resultados_list = <<>>
    /\ CpIdle
    /\ FlexIdle
    /\ FaixaIdle
    /\ LimpezaIdle
    /\ FatorIdle
    /\ FitIdle

\* lines 191-204: keep the rows with a valid area, sort them; exit when none
Main_Filtrar ==
    /\ pc = "main_start"
    /\ cp_validos' = SortByCp(FiltrarArea(geral))
    /\ pc' = IF FiltrarArea(geral) = <<>> THEN "exit_1" ELSE "loop"
    /\ resultados_list' = <<>>
    /\ UNCHANGED <<geral, index, cponly, flexonly, faixaonly, limpezaonly, fatoronly, fitonly>>

\* mutant: a specimen that follows a failed one is skipped
Main_Processar_AposFalha ==
    /\ pc = "loop"
    /\ index < Len(cp_validos)
    /\ LET row == cp_validos[index + 1]
           res == processar_cp(row.cp, row.area[1], row.arquivo)
           falhou == /\ index > 0
                     /\ processar_cp(cp_validos[index].cp, cp_validos[index].area[1],
                                     cp_validos[index].arquivo) = None
       IN  resultados_list' = IF res # None /\ ~falhou THEN Append(resultados_list, res)
                              ELSE resultados_list
    /\ index' = index + 1
    /\ UNCHANGED <<pc, geral, cp_validos, cponly, flexonly, faixaonly, limpezaonly, fatoronly, fitonly>>

\* lines 206-216: one specimen; a None result leaves no row
Main_Processar ==
    /\ pc = "loop"
    /\ index < Len(cp_validos)
    /\ LET row == cp_validos[index + 1]
           res == processar_cp(row.cp, row.area[1], row.arquivo)
       IN  resultados_list' = IF res # None THEN Append(resultados_list, res)
                              ELSE resultados_list
    /\ index' = index + 1
    /\ UNCHANGED <<pc, geral, cp_validos, cponly, flexonly, faixaonly, limpezaonly, fatoronly, fitonly>>

\* lines 218-236: the loop is over; the rows, if any, are written out
Main_Consolidar ==
    /\ pc = "loop"
    /\ index = Len(cp_validos)
    /\ pc' = "main_done"
    /\ UNCHANGED <<loteonly, cponly, flexonly, faixaonly, limpezaonly, fatoronly, fitonly>>

LoteNext ==
    \/ Main_Filtrar
    \/ Main_Processar
    \/ Main_Consolidar

SpecBatch == LoteInit /\ [][LoteNext]_vars

\* C6: a batch run yields exactly one row per manifest entry, failed entries
\* included.
Cex_C6 ==
    pc = "main_done" =>
        \A k \in 1..Len(geral) :
            Cardinality({j \in 1..Len(resultados_list) :
                            resultados_list[j].CP = geral[k].cp}) = 1

\* the loop of index_auto.py has no step that stops it early: when main is
\* over, every valid specimen was attempted
Lemma_Lote == pc = "main_done" => index = Len(cp_validos)

\* ---------------------------------------------------- claims on the search
\* hunting_E_best_R2 has returned
Returned == pc \in {"hunting_ret", "cp_done"} /\ hunting # None
\* ... after scanning its domain
Scanned == Returned /\ ~PoucosPontos(df_search)
\* positions of `fitted` whose fit is defined
Defined == {k \in 1..Len(fitted) : fitted[k].raised = "no"}
\* the position in `fitted` of the returned window
ReturnedAt ==
    {k \in 1..Len(fitted) :
        /\ Frac(fitted[k].window_size, 1) = hunting.best_window_size_global
        /\ Frac(fitted[k].start_idx, 1) = hunting.best_start_idx_global}

\* C1: when the search returns after scanning, the returned r_squared is >=
\* the r_squared of every window it fitted, whatever its size and start.
Thm_C1 ==
    Scanned => \A k \in Defined : Ge(hunting.best_r2_global, fitted[k].r_squared)

\* a scan in which a later window of another size beat an earlier defined fit
Wit_C1 ==
    /\ Scanned
    /\ \E j, k \in Defined :
          /\ j < k
          /\ fitted[j].window_size # fitted[k].window_size
          /\ Gt(fitted[k].r_squared, fitted[j].r_squared)
          /\ hunting.best_r2_global = fitted[k].r_squared

\* C2: among the fitted windows that share the maximal r_squared the returned
\* one is the first in scan order, which is the smallest window size and then
\* the smallest start index.
Thm_C2 ==
    (Scanned /\ Defined # {}) =>
        /\ ReturnedAt # {}
        /\ \A p \in ReturnedAt : \A k \in Defined :
              fitted[k].r_squared = hunting.best_r2_global =>
                 /\ p <= k
                 /\ \/ fitted[p].window_size < fitted[k].window_size
                    \/ /\ fitted[p].window_size = fitted[k].window_size
                       /\ fitted[p].start_idx <= fitted[k].start_idx

\* a scan in which two windows of one size and a window of another size tie
\* at the maximum
Wit_C2 ==
    /\ Scanned
    /\ \E j, k, l \in Defined :
          /\ j < k /\ k < l
          /\ fitted[j].window_size = fitted[k].window_size
          /\ fitted[k].window_size # fitted[l].window_size
          /\ fitted[j].r_squared = hunting.best_r2_global
          /\ fitted[k].r_squared = hunting.best_r2_global
          /\ fitted[l].r_squared = hunting.best_r2_global
          /\ hunting.best_start_idx_global = Frac(fitted[j].start_idx, 1)

\* C3: when the search domain has fewer than MIN_R2_WINDOW_POINTS samples the
\* search gives up (every returned field is NaN) and no window is fitted.
Thm_C3 ==
    /\ (Returned /\ Len(df_search) < MIN_R2_WINDOW_POINTS) =>
          (hunting = AllNaN /\ fitted = <<>>)
    /\ pc = "scan" => Len(df_search) >= MIN_R2_WINDOW_POINTS

\* a curve long enough for a window whose domain (the samples before the
\* peak) is too short
Wit_C3 ==
    /\ Returned
    /\ Len(df_ensaio) >= MIN_R2_WINDOW_POINTS + 1
    /\ Len(df_search) = MIN_R2_WINDOW_POINTS - 1
    /\ hunting = AllNaN

\* C4: when the scan ends without any defined fit the search fails: it hands
\* no number back as a result.
Cex_C4 ==
    (Scanned /\ Defined = {}) =>
        /\ hunting.best_r2_global = NaN
        /\ hunting.best_start_idx_global = NaN
        /\ hunting.best_end_idx_global = NaN
        /\ hunting.best_window_size_global = NaN

\* a float that is a score in [0, 1]
IsScore(v) == IsNum(v) /\ Ge(v, Frac(0, 1)) /\ Ge(Frac(1, 1), v)

\* C5: every r_squared of a result row is a score in [0, 1] or NaN.
Cex_C5 ==
    (pc = "cp_done" /\ resultado # None) =>
        /\ resultado.R2_Norma = NaN \/ IsScore(resultado.R2_Norma)
        /\ resultado.R2_Otimizado = NaN \/ IsScore(resultado.R2_Otimizado)

\* ------------------------------------------------------------- y_flexao.py
\* number_input defaults of the geometry, in mm
L == 1200
h == 100
b == 50
\* slider default of the deformation limits, in mm
deform_min == 0
deform_max == 200
\* np.arange(1.0, 0.4, -reducao_passo) has 6 elements: 1.0, 0.9, ..., 0.5
NFracs == 6
r2_min == Frac(95, 100)
NegInf == <<-1, 0>>

Mul(p, q) == Frac(p[1] * q[1], p[2] * q[2])
Cube(p) == Mul(p, Mul(p, p))

\* an uploaded file after its header rows: rows <<Forca_kN, Deformacao_mm>>
Medida(fo, d) == <<(<<fo>>), (<<d>>)>>

\* the uploaded files: unreadable or empty; three points; a straight line;
\* a scattered cloud; a stuck deformation reading; a reading stuck at the
\* start of the test; a force channel that reads zero; a force plateau at
\* 40% of the peak; a line that is left after four samples
ArquivosFlexao ==
    { [status |-> "unreadable", tabela |-> <<>>],
      [status |-> "ok", tabela |-> <<Medida(1, 1), Medida(2, 2), Medida(10, 3)>>],
      [status |-> "ok", tabela |-> <<Medida(1, 1), Medida(2, 2), Medida(2, 2), Medida(3, 3),
                                      Medida(4, 4), Medida(10, 10)>>],
      [status |-> "ok", tabela |-> <<Medida(1, 1), Medida(4, 2), Medida(1, 3), Medida(4, 4),
                                      Medida(2, 5), Medida(10, 6)>>],
      [status |-> "ok", tabela |-> <<Medida(1, 0), Medida(2, 0), Medida(3, 0), Medida(4, 0),
                                      Medida(4, 0), Medida(10, 0)>>],
      [status |-> "ok", tabela |-> <<Medida(1, 0), Medida(4, 0), Medida(2, 0), Medida(3, 1),
                                      Medida(1, 2), Medida(10, 3)>>],
      [status |-> "ok", tabela |-> <<Medida(0, 1), Medida(0, 2), Medida(0, 3), Medida(0, 4),
                                      Medida(0, 5)>>],
      [status |-> "ok", tabela |-> <<Medida(4, 1), Medida(4, 2), Medida(4, 3), Medida(4, 4),
                                      Medida(4, 5), Medida(10, 6)>>],
      [status |-> "ok", tabela |-> <<Medida(1, 1), Medida(2, 2), Medida(3, 3), Medida(4, 4),
                                      Medida(1, 5), Medida(10, 6)>>] }

\* lines 43-55: a read error gives an empty DataFrame
carregar_dados(file) ==
    IF file.status # "ok" THEN <<>>
    ELSE LET limpo == dropna(file.tabela)
         IN  [k \in 1..Len(limpo) |->
                 [Forca_kN |-> limpo[k][1][1], Deformacao_mm |-> limpo[k][2][1]]]

Forca(df) == [k \in 1..Len(df) |-> df[k].Forca_kN]
Deformacao(df) == [k \in 1..Len(df) |-> df[k].Deformacao_mm]

\* line 71: max(3, int(n_pontos * frac)) for the k-th fraction, k = 0..5; the
\* floats 1.0 + k * (0.9 - 1.0) lie just above (10 - k)/10, so for the table
\* lengths of the model int() gives the exact floor
NSub(n, k) == IF (n * (10 - k)) \div 10 < 3 THEN 3 ELSE (n * (10 - k)) \div 10

\* lines 70-81: the loop over the fractions, from the k-th on; linregress is
\* not guarded here, its ValueError leaves the function
RECURSIVE BuscarFrom(_, _, _)
BuscarFrom(df_faixa, k, melhor) ==
    IF k >= NFracs THEN [melhor EXCEPT !.automatico = FALSE]
    ELSE LET sub_df == SubSeq(df_faixa, 1, NSub(Len(df_faixa), k))
             fit == linregress(Deformacao(sub_df), Forca(sub_df))
             novo == IF Gt(fit.r_squared, melhor.r2)
                     THEN [melhor EXCEPT !.slope = fit.slope, !.intercept = fit.intercept,
                                         !.df_reg = sub_df, !.r2 = fit.r_squared]
                     ELSE melhor
         IN  IF fit.raised # "no" THEN [melhor EXCEPT !.raised = fit.raised]
             ELSE IF Ge(fit.r_squared, r2_min) THEN [novo EXCEPT !.automatico = TRUE]
             ELSE BuscarFrom(df_faixa, k + 1, novo)

\* mutant: the search starts at the second fraction
buscar_intervalo_otimo_SemInteiro(df, lo, hi, Fmax, dmin, dmax) ==
    LET Keep(r) == /\ r.Forca_kN * 100 >= lo * Fmax
                   /\ r.Forca_kN * 100 <= hi * Fmax
                   /\ r.Deformacao_mm >= dmin
                   /\ r.Deformacao_mm <= dmax
        df_faixa == SelectSeq(df, Keep)
    IN  IF Len(df_faixa) < 5
        THEN [raised |-> "no", slope |-> None, intercept |-> None, df_reg |-> None,
              r2 |-> None, automatico |-> FALSE]
        ELSE BuscarFrom(df_faixa, 1,
                 [raised |-> "no", slope |-> None, intercept |-> None, df_reg |-> df_faixa,
                  r2 |-> NegInf, automatico |-> FALSE])

\* lines 58-83; Fmin and Flim are lo/100 * Fmax and hi/100 * Fmax
buscar_intervalo_otimo(df, lo, hi, Fmax, dmin, dmax) ==
    LET Keep(r) == /\ r.Forca_kN * 100 >= lo * Fmax
                   /\ r.Forca_kN * 100 <= hi * Fmax
                   /\ r.Deformacao_mm >= dmin
                   /\ r.Deformacao_mm <= dmax
        df_faixa == SelectSeq(df, Keep)
    IN  IF Len(df_faixa) < 5
        THEN [raised |-> "no", slope |-> None, intercept |-> None, df_reg |-> None,
              r2 |-> None, automatico |-> FALSE]
        ELSE BuscarFrom(df_faixa, 0,
                 [raised |-> "no", slope |-> None, intercept |-> None, df_reg |-> df_faixa,
                  r2 |-> NegInf, automatico |-> FALSE])

\* the number inputs take any float: the defaults, a negative height, a
\* width of zero, a span of zero
Geometrias ==
    {[L |-> L, h |-> h, b |-> b], [L |-> L, h |-> -h, b |-> b],
     [L |-> L, h |-> h, b |-> 0], [L |-> 0, h |-> h, b |-> b]}

\* lines 99-107: E0 in GPa from the slope in kN/mm; the divisions by h_SI and
\* b_SI are float divisions (ZeroDivisionError on 0.0, see processar_ensaio)
E0_gpa(slope, tipo, geo) ==
    LET L_SI == Frac(geo.L, 1000)
        h_SI == Frac(geo.h, 1000)
        b_SI == Frac(geo.b, 1000)
        inv(p) == Frac(p[2], p[1])
        geom == IF tipo = "3 Pontos"
                THEN Mul(Frac(1, 4), Mul(Cube(Mul(L_SI, inv(b_SI))), inv(h_SI)))
                ELSE Mul(Frac(23, 108), Mul(Cube(Mul(L_SI, inv(h_SI))), inv(b_SI)))
    IN  Mul(slope, Mul(geom, Frac(1, 1000)))

\* lines 86-117
processar_ensaio(nome, df, geo, lims, tipo) ==
    IF df = <<>> THEN [raised |-> "no", resultado |-> None]
    ELSE LET Fmax == SeqMax(Forca(df))
             busca == buscar_intervalo_otimo(df, lims[1], lims[2], Fmax, deform_min, deform_max)
         IN  IF busca.raised # "no" THEN [raised |-> busca.raised, resultado |-> None]
             ELSE IF busca.df_reg = None \/ busca.slope = None
                  THEN [raised |-> "no", resultado |-> None]
             ELSE IF geo.h = 0 \/ geo.b = 0
                  THEN [raised |-> "ZeroDivisionError", resultado |-> None]
             ELSE [raised |-> "no",
                   resultado |->
                      [Ensaio |-> nome, Tipo |-> tipo, Fmax_kN |-> Frac(Fmax, 1),
                       dF_de |-> busca.slope, R2 |-> busca.r2,
                       E0_GPa |-> E0_gpa(busca.slope, tipo, geo),
                       Ajuste |-> IF busca.automatico THEN "Automatico" ELSE "Manual"]]

FlexInit ==
    /\ pc = "flex_start"
    /\ uploaded_files \in SeqsUpTo(ArquivosFlexao, MaxFiles)
    /\ faixa \in {<<10, 40>>, <<0, 100>>, <<40, 40>>}
    /\ tipo_ensaio \in {"3 Pontos", "4 Pontos"}
    /\ geometria \in Geometrias
    /\ f = 0
    /\ resultados = <<>>
    /\ CpIdle
    /\ LoteIdle
    /\ FaixaIdle
    /\ LimpezaIdle
    /\ FatorIdle
    /\ FitIdle

\* lines 26-28: without files the script stops
Flex_Inicio ==
    /\ pc = "flex_start"
    /\ pc' = IF uploaded_files = <<>> THEN "flex_stopped" ELSE "flex_loop"
    /\ UNCHANGED <<flexonly, cponly, loteonly, faixaonly, limpezaonly, fatoronly, fitonly>>

\* lines 122-132: one file; an exception that leaves processar_ensaio ends
\* the script run
Flex_Processar ==
    /\ pc = "flex_loop"
    /\ f < Len(uploaded_files)
    /\ LET df == carregar_dados(uploaded_files[f + 1])
           res == processar_ensaio(f + 1, df, geometria, faixa, tipo_ensaio)
       IN  IF res.raised # "no"
           THEN /\ pc' = "flex_raised"
                /\ UNCHANGED <<f, resultados>>
           ELSE /\ resultados' = Append(resultados,
                       IF res.resultado # None THEN res.resultado
                       ELSE [Ensaio |-> f + 1, E0_GPa |-> None])
                /\ f' = f + 1
                /\ UNCHANGED pc
    /\ UNCHANGED <<uploaded_files, faixa, tipo_ensaio, geometria, cponly, loteonly, faixaonly, limpezaonly, fatoronly, fitonly>>

\* lines 134-194: the loop is over, the table and the plots are rendered
Flex_Tabela ==
    /\ pc = "flex_loop"
    /\ f = Len(uploaded_files)
    /\ pc' = "flex_done"
    /\ UNCHANGED <<flexonly, cponly, loteonly, faixaonly, limpezaonly, fatoronly, fitonly>>

FlexNext ==
    \/ Flex_Inicio
    \/ Flex_Processar
    \/ Flex_Tabela

SpecFlexao == FlexInit /\ [][FlexNext]_vars

\* C7: a failure while processing one entry never aborts the batch: the run
\* only ends after every entry was attempted.
Cex_C7 ==
    pc \in {"flex_raised", "flex_done"} => f = Len(uploaded_files)

\* ---------- fixed-range extraction: index_semiauto_data.py, index_auto.py,
\* ---------- y_madeira_plastico.py
ForcasFaixa == {-1, 0, 1, 2, 4}
DeformacoesFaixa == {0, 1}
LeiturasFaixa == {Row(d, fo) : d \in DeformacoesFaixa, fo \in ForcasFaixa}
\* positions of the force slider of y_madeira_plastico.py (0..100, step 1)
Percentuais == {0, 10, 40, 50, 100}
Limites == {<<lo, hi>> \in Percentuais \X Percentuais : lo <= hi}
LimitesNorma == <<PERCENTUAL_MIN_MODULO, PERCENTUAL_MAX_MODULO>>

\* a run's outcome: the rows selected (label, x, y), the rows handed to
\* linregress by each call, whether an exception left the program, and the
\* fit reported (NaN where the program reports none)
Sem(sel) ==
    [sel |-> sel, ajustes |-> <<>>, raised |-> "no", presente |-> FALSE,
     slope |-> NaN, intercept |-> NaN, r_squared |-> NaN]

Pontos(df) == [k \in 1..Len(df) |-> [idx |-> df[k].idx, x |-> df[k].deformacao_especifica,
                                       y |-> df[k].tensao_pa]]

\* mutant: one point is taken for enough
Insuficiente_1(df_filtrado) == Len(df_filtrado) < 1

\* index_semiauto_data.py line 80: len(df_filtrado) < 2
Insuficiente(df_filtrado) == Len(df_filtrado) < 2

\* index_semiauto_data.py, processar_cp lines 42-105
Semiauto(tabela, area) ==
    LET limpo == dropna(tabela)
        df == Converter(limpo, area)
        peak == SeqMax(Y(df))
        df_filtrado == FiltrarFaixa(df, PERCENTUAL_MIN_MODULO, PERCENTUAL_MAX_MODULO, peak)
        fit == linregress(X(df_filtrado), Y(df_filtrado))
    IN  IF limpo = <<>> THEN Sem(<<>>)
        ELSE IF peak <= 0 THEN Sem(<<>>)
        ELSE IF Insuficiente(df_filtrado) THEN Sem(Pontos(df_filtrado))
        ELSE IF fit.raised # "no"
             THEN [Sem(Pontos(df_filtrado)) EXCEPT !.ajustes = <<Pontos(df_filtrado)>>]
        ELSE [sel |-> Pontos(df_filtrado), ajustes |-> <<Pontos(df_filtrado)>>,
              raised |-> "no", presente |-> TRUE, slope |-> fit.slope,
              intercept |-> fit.intercept, r_squared |-> fit.r_squared]

\* index_auto.py, processar_cp lines 99-141: the fixed-range part
Auto(tabela, area) ==
    LET limpo == dropna(tabela)
        df == Converter(limpo, area)
        peak == SeqMax(Y(df))
        df_norma == FiltrarFaixa(df, PERCENTUAL_MIN_MODULO, PERCENTUAL_MAX_MODULO, peak)
        nm == Norma(df, peak)
    IN  IF limpo = <<>> THEN Sem(<<>>)
        ELSE IF peak <= 0 THEN Sem(<<>>)
        ELSE [sel |-> Pontos(df_norma),
              ajustes |-> IF Len(df_norma) >= MIN_R2_WINDOW_POINTS
                          THEN <<Pontos(df_norma)>> ELSE <<>>,
              raised |-> "no", presente |-> nm.R2_Norma # NaN, slope |-> nm.E_Norma,
              intercept |-> nm.Intercepto_Norma, r_squared |-> nm.R2_Norma]

\* y_madeira_plastico.py lines 37, 56-91: the sign of deformacao_mm is
\* inverted on reading; the deformation slider stays on its default, the
\* whole range of the file; linregress is not guarded
Madeira(tabela, lims) ==
    LET df_sel == [k \in 1..Len(tabela) |->
                      [idx |-> k - 1, x |-> -tabela[k][1][1], y |-> tabela[k][2][1]]]
        fmax == SeqMax([k \in 1..Len(df_sel) |-> df_sel[k].y])
        x_min == -SeqMax([k \in 1..Len(df_sel) |-> -df_sel[k].x])
        x_max == SeqMax([k \in 1..Len(df_sel) |-> df_sel[k].x])
        Keep(r) == /\ r.y * 100 >= lims[1] * fmax
                   /\ r.y * 100 <= lims[2] * fmax
                   /\ r.x >= x_min
                   /\ r.x <= x_max
        df_reg == SelectSeq(df_sel, Keep)
        fit == linregress([k \in 1..Len(df_reg) |-> df_reg[k].x],
                          [k \in 1..Len(df_reg) |-> df_reg[k].y])
    IN  IF Len(df_reg) >= 2
        THEN IF fit.raised # "no"
             THEN [Sem(df_reg) EXCEPT !.ajustes = <<df_reg>>, !.raised = fit.raised]
             ELSE [sel |-> df_reg, ajustes |-> <<df_reg>>, raised |-> "no",
                   presente |-> TRUE, slope |-> fit.slope, intercept |-> fit.intercept,
                   r_squared |-> fit.r_squared]
        ELSE Sem(df_reg)

Executar(prog, ent) ==
    IF prog = "semiauto" THEN Semiauto(ent.tabela, ent.area)
    ELSE IF prog = "auto" THEN Auto(ent.tabela, ent.area)
    ELSE Madeira(ent.tabela, ent.lims)

\* rows k and k + 1 exchanged
Trocar(t, k) ==
    [j \in 1..Len(t) |-> IF j = k THEN t[k + 1] ELSE IF j = k + 1 THEN t[k] ELSE t[j]]

\* the second input
Segunda(ent, v) ==
    IF v.tipo = "troca" THEN [ent EXCEPT !.tabela = Trocar(ent.tabela, v.k)]
    ELSE IF v.tipo = "faixa" THEN [ent EXCEPT !.lims = v.lims]
    ELSE ent

Variantes(prog, ent) ==
    {[tipo |-> "nenhuma", k |-> 0, lims |-> ent.lims]}
    \cup {[tipo |-> "troca", k |-> k, lims |-> ent.lims] : k \in 1..(Len(ent.tabela) - 1)}
    \cup IF prog = "madeira"
         THEN {[tipo |-> "faixa", k |-> 0, lims |-> l] :
                  l \in {m \in Limites : /\ m[1] <= ent.lims[1]
                                          /\ m[2] >= ent.lims[2]
                                          /\ m # ent.lims}}
         ELSE {}

\* the deformation slider of y_madeira_plastico.py (step (x_max - x_min) / 100)
\* is built for a file with two different deformations; the other two
\* programs read any file
Variada(t) == \E j, k \in 1..Len(t) : t[j][1] # t[k][1]

Entradas(prog) ==
    IF prog = "madeira"
    THEN {[tabela |-> t, area |-> 1, lims |-> l] :
             t \in {u \in SeqsUpTo(LeiturasFaixa, MaxLenFaixa) : Variada(u)},
             l \in Limites}
    ELSE {[tabela |-> t, area |-> a, lims |-> LimitesNorma] :
             t \in SeqsUpTo(LeiturasFaixa, MaxLenFaixa), a \in Areas}

FaixaInit ==
    /\ pc = "faixa_start"
    /\ programa \in {"semiauto", "auto", "madeira"}
    /\ entrada \in Entradas(programa)
    /\ variante \in Variantes(programa, entrada)
    /\ saida1 = None
    /\ saida2 = None
    /\ CpIdle
    /\ LoteIdle
    /\ FlexIdle
    /\ LimpezaIdle
    /\ FatorIdle
    /\ FitIdle

\* the program runs on the input
Faixa_Executar1 ==
    /\ pc = "faixa_start"
    /\ saida1' = Executar(programa, entrada)
    /\ pc' = "faixa_second"
    /\ UNCHANGED <<programa, entrada, variante, saida2, cponly, loteonly, flexonly, limpezaonly, fatoronly, fitonly>>

\* the program runs on the second input
Faixa_Executar2 ==
    /\ pc = "faixa_second"
    /\ saida2' = Executar(programa, Segunda(entrada, variante))
    /\ pc' = "faixa_done"
    /\ UNCHANGED <<programa, entrada, variante, saida1, cponly, loteonly, flexonly, limpezaonly, fatoronly, fitonly>>

FaixaNext ==
    \/ Faixa_Executar1
    \/ Faixa_Executar2

SpecRange == FaixaInit /\ [][FaixaNext]_vars

\* ---------- claims on SpecRange
ForcaLida(ent, k) == ent.tabela[k][2][1]

PicoLido(ent) == SeqMax([k \in 1..Len(ent.tabela) |-> ForcaLida(ent, k)])

\* the selection is reached: index_semiauto_data.py and index_auto.py leave
\* before it for an empty curve and for a peak that is not positive
Alcancada(prog, ent) ==
    prog = "madeira" \/ (ent.tabela # <<>> /\ PicoLido(ent) > 0)

\* labels of the samples whose value lies in the range, bounds included
NaFaixa(ent) ==
    {k - 1 : k \in {j \in 1..Len(ent.tabela) :
                       /\ ForcaLida(ent, j) * 100 >= ent.lims[1] * PicoLido(ent)
                       /\ ForcaLida(ent, j) * 100 <= ent.lims[2] * PicoLido(ent)}}

Rotulos(saida) == {saida.sel[k].idx : k \in 1..Len(saida.sel)}

PorValor(prog, ent, saida) ==
    Alcancada(prog, ent) =>
        /\ Rotulos(saida) = NaFaixa(ent)
        /\ Len(saida.sel) = Cardinality(NaFaixa(ent))
        /\ \A k \in 1..Len(saida.ajustes) : saida.ajustes[k] = saida.sel

\* where sample j of the input sits in the second input
Destino(v, j) ==
    IF v.tipo # "troca" THEN j
    ELSE IF j = v.k - 1 THEN v.k ELSE IF j = v.k THEN v.k - 1 ELSE j

\* C8: the points handed to the fit are exactly the samples whose y lies in
\* [y_low, y_high] with y_low = low% of max(y) and y_high = high% of max(y),
\* both bounds included; they are chosen by value, so exchanging two samples
\* of the curve selects the same samples at their new places, and a sample
\* above y_high is never part of the fit.
Thm_C8 ==
    /\ pc \in {"faixa_second", "faixa_done"} => PorValor(programa, entrada, saida1)
    /\ pc = "faixa_done" =>
          /\ PorValor(programa, Segunda(entrada, variante), saida2)
          /\ (variante.tipo = "troca" /\ Alcancada(programa, entrada)) =>
                Rotulos(saida2) = {Destino(variante, j) : j \in Rotulos(saida1)}

\* a fit was made on two samples that are not neighbours, the sample between
\* them lies above the range, and the second run exchanged it with one of them
Wit_C8 ==
    /\ pc = "faixa_done"
    /\ programa = "semiauto"
    /\ saida1.presente
    /\ Rotulos(saida1) = {0, 2}
    /\ ForcaLida(entrada, 2) * 100 > entrada.lims[2] * PicoLido(entrada)
    /\ variante.tipo = "troca"
    /\ variante.k = 1
    /\ Rotulos(saida2) = {1, 2}
    /\ saida2.presente

\* C9: for a fixed curve, widening the percent range to a superset range
\* never decreases the number of points selected.
Cex_C9 ==
    (pc = "faixa_done" /\ variante.tipo = "faixa") =>
        Len(saida2.sel) >= Len(saida1.sel)

\* C10: when fewer than 2 points fall in the selected range the extraction
\* reports no fit (None in index_semiauto_data.py, NaN in index_auto.py and
\* y_madeira_plastico.py) and linregress is not called, so no degenerate or
\* empty fit is returned.
Thm_C10 ==
    pc \in {"faixa_second", "faixa_done"} =>
        ((Alcancada(programa, entrada) /\ Len(saida1.sel) < 2) =>
            /\ ~saida1.presente
            /\ saida1.ajustes = <<>>
            /\ saida1.raised = "no"
            /\ saida1.slope = NaN
            /\ saida1.intercept = NaN
            /\ saida1.r_squared = NaN)

\* exactly one sample of a curve with a positive peak lies in the range
Wit_C10 ==
    /\ pc = "faixa_second"
    /\ programa = "semiauto"
    /\ Alcancada(programa, entrada)
    /\ Len(saida1.sel) = 1
    /\ ~saida1.presente

\* ------------------------------------------------- claims on the invalid range
\* the k-th uploaded file is read with a range that is not low < high or has
\* a peak force that is not positive
FaixaInvalida(k) ==
    LET df == carregar_dados(uploaded_files[k])
    IN  df # <<>> /\ (faixa[2] <= faixa[1] \/ faixa[1] < 0 \/ SeqMax(Forca(df)) <= 0)

\* C11: when the range is not high > low >= 0 or the peak is not positive the
\* extraction fails and performs no fit: the entry's row carries no modulus.
Cex_C11 ==
    \A k \in 1..Len(resultados) : FaixaInvalida(k) => resultados[k].E0_GPa = None

\* ------------------------------------------- claims on the window enumeration
\* the windows <<window_size, start>> of a domain of n samples
Janelas(n) ==
    {<<R2_WINDOW_SIZES[j], k * R2_STEP_SIZE>> :
        j \in {l \in 1..Len(R2_WINDOW_SIZES) : R2_WINDOW_SIZES[l] <= n},
        k \in 0..n} \cap {p \in (1..n) \X (0..(n * R2_STEP_SIZE)) : p[2] + p[1] <= n}

Ajustadas == {<<fitted[k].window_size, fitted[k].start_idx>> : k \in 1..Len(fitted)}

\* C12: the windows fitted are exactly [start, start + window_size) for every
\* configured size not larger than the domain and start = 0, step, 2*step, ...
\* with start + window_size <= domain length, each once; a size larger than
\* the domain gets no fit and no other window is fitted.
Thm_C12 ==
    /\ pc \in {"scan", "hunting_ret", "cp_done"} =>
          /\ Ajustadas \subseteq Janelas(Len(df_search))
          /\ Cardinality(Ajustadas) = Len(fitted)
          /\ \A k \in 1..Len(fitted) :
                LET janela == SubSeq(df_search, fitted[k].start_idx + 1,
                                     fitted[k].start_idx + fitted[k].window_size)
                IN  /\ Len(janela) = fitted[k].window_size
                    /\ fitted[k].r_squared = linregress(X(janela), Y(janela)).r_squared
    /\ Scanned => Ajustadas = Janelas(Len(df_search))

\* a scan of a domain of 4 samples: two windows of the smallest size, one of
\* the next, none of the largest
Wit_C12 ==
    /\ Scanned
    /\ Len(df_search) = 4
    /\ Ajustadas = {<<2, 0>>, <<2, 2>>, <<3, 0>>}

\* ---------------------------------------------- claims on the search domain
\* hunting_E_best_R2 was entered: n_points holds the length of its domain
Entered == pc \in {"scan", "hunting_ret"} \/ (pc = "cp_done" /\ hunting # None)

\* C13: the domain handed to the window search is the curve from its first
\* sample up to and including the sample of maximum stress.
Cex_C13 ==
    Entered =>
        /\ n_points = max_sigma_index + 1
        /\ df_search = SubSeq(df_ensaio, 1, max_sigma_index + 1)

\* the samples of the curve from label lo to label hi, both included
Entre(lo, hi) ==
    LET Keep(r) == Ge(Frac(r.idx, 1), lo) /\ Ge(hi, Frac(r.idx, 1))
    IN  SelectSeq(df_ensaio, Keep)

\* the returned indices are positions of the curve and the fit of the
\* samples they delimit is the returned fit
IndicesDoAjuste ==
    /\ IsNum(hunting.best_start_idx_global)
    /\ IsNum(hunting.best_end_idx_global)
    /\ Ge(hunting.best_start_idx_global, Frac(0, 1))
    /\ Ge(hunting.best_end_idx_global, hunting.best_start_idx_global)
    /\ Gt(Frac(Len(df_ensaio), 1), hunting.best_end_idx_global)
    /\ LET janela == Entre(hunting.best_start_idx_global, hunting.best_end_idx_global)
           fit == linregress(X(janela), Y(janela))
       IN  /\ Frac(Len(janela), 1) = hunting.best_window_size_global
           /\ fit.raised = "no"
           /\ fit.slope = hunting.best_E_global
           /\ fit.intercept = hunting.best_intercept_global
           /\ fit.r_squared = hunting.best_r2_global

\* C14: the start and end indices returned by the window search are
\* positions in the original curve and delimit exactly the contiguous samples
\* whose fit produced the returned slope, intercept and r_squared.
Cex_C14 == Scanned => IndicesDoAjuste

\* whenever a window was accepted the returned indices are its first and its
\* last sample in the curve
Lemma_Indices == (Scanned /\ Defined # {}) => IndicesDoAjuste

\* ------------------------------------------------ claims on degenerate fits
\* what processing the file under the loop gives
Atual ==
    processar_ensaio(f + 1, carregar_dados(uploaded_files[f + 1]), geometria, faixa,
                     tipo_ensaio)

\* C15: a fit over fewer than 2 points or over points whose x is constant is
\* flagged degenerate; it never raises out of the fitter: no run ends on the
\* ValueError of a fit.
Cex_C15 == pc = "flex_raised" => Atual.raised # "ValueError"

\* ---------------------------------- claims on the normalization parameters
ParametroInvalido == geometria.L <= 0 \/ geometria.h <= 0 \/ geometria.b <= 0

\* C16: a cross-sectional area or geometric dimension that is zero or
\* negative is rejected: no modulus is ever computed from such a parameter.
Cex_C16 ==
    ParametroInvalido => \A k \in 1..Len(resultados) : resultados[k].E0_GPa = None

\* index_auto.py: main keeps only the manifest rows with a positive area, so
\* every row of the output belongs to a specimen with a positive area
Lemma_Area ==
    \A j \in 1..Len(resultados_list) :
        \E k \in 1..Len(geral) :
            /\ geral[k].cp = resultados_list[j].CP
            /\ geral[k].area # <<>>
            /\ geral[k].area[1] > 0

\* ------------------------------------------------- claims on the empty curve
\* the test file was read and no row is left after cleaning
CurvaVazia == arquivo.status = "ok" /\ dropna(arquivo.tabela) = <<>>

\* test files that fail for another reason: absent, unreadable, no positive
\* stress
OutrasFalhas ==
    {[status |-> "missing", tabela |-> <<>>], [status |-> "unreadable", tabela |-> <<>>],
     [status |-> "ok", tabela |-> <<Row(0, 0), Row(1, 0)>>]}

\* C17: when zero rows remain after cleaning, the entry fails with an outcome
\* of its own, distinguishable from the other failures, and neither the
\* fixed-range fit nor the window search is run on it.
Cex_C17 ==
    (pc = "cp_done" /\ CurvaVazia) =>
        /\ norma = None
        /\ hunting = None
        /\ fitted = <<>>
        /\ \A q \in OutrasFalhas : processar_cp(cp_nome, area_mm2, q) # resultado

\* no extractor runs on an empty curve
Lemma_Vazia ==
    (pc = "cp_done" /\ CurvaVazia) =>
        (resultado = None /\ norma = None /\ hunting = None /\ fitted = <<>>)

\* ------------------------------- index_auto.py / index.py: cleaning the table
\* a cell after pd.to_numeric(errors="coerce"): <<v>> or <<>> (NaN)
Tempos == {<<>>, <<1>>, <<2>>}
CelulasDeformacao == {<<>>, <<0>>, <<1>>}
CelulasForca == {<<>>, <<1>>}
LinhasBrutas == Tempos \X CelulasDeformacao \X CelulasForca

\* the rows of the file, each with its place in the file
Marcar(t) ==
    [k \in 1..Len(t) |->
        [pos |-> k, tempo_s |-> t[k][1], deformacao_mm |-> t[k][2], forca_n |-> t[k][3]]]

\* index_auto.py lines 103-105: dropna(subset=["deformacao_mm", "forca_n"])
LimparAuto(t) ==
    LET Keep(r) == r.deformacao_mm # <<>> /\ r.forca_n # <<>>
    IN  SelectSeq(Marcar(t), Keep)

\* index.py lines 110-113: dropna(subset=["tempo_s", "deformacao_mm", "forca_n"])
LimparIndex(t) ==
    LET Keep(r) == r.tempo_s # <<>> /\ r.deformacao_mm # <<>> /\ r.forca_n # <<>>
    IN  SelectSeq(Marcar(t), Keep)

\* index.py line 113: sort_values(by="tempo_s"), whose default quicksort is
\* not stable: any arrangement of the rows with tempo_s ascending
OrdenarPorTempo(df) ==
    LET n == Len(df)
        arranjos == {p \in [1..n -> 1..n] : \A j, k \in 1..n : j # k => p[j] # p[k]}
    IN  {[k \in 1..n |-> df[p[k]]] : p \in
            {q \in arranjos : \A j, k \in 1..n :
                j < k => df[q[j]].tempo_s[1] <= df[q[k]].tempo_s[1]}}

Limpar(prog, t) ==
    IF prog = "index_auto" THEN {LimparAuto(t)} ELSE OrdenarPorTempo(LimparIndex(t))

LimpezaInit ==
    /\ pc = "limpeza_start"
    /\ script \in {"index_auto", "index"}
    /\ bruta \in SeqsUpTo(LinhasBrutas, MaxLenBruta)
    /\ limpa = <<>>
    /\ CpIdle
    /\ LoteIdle
    /\ FlexIdle
    /\ FaixaIdle
    /\ FatorIdle
    /\ FitIdle

\* the file is read, coerced and cleaned
Limpeza_Carregar ==
    /\ pc = "limpeza_start"
    /\ limpa' \in Limpar(script, bruta)
    /\ pc' = "limpeza_done"
    /\ UNCHANGED <<script, bruta, cponly, loteonly, flexonly, faixaonly, fatoronly, fitonly>>

LimpezaNext == Limpeza_Carregar

SpecLimpeza == LimpezaInit /\ [][LimpezaNext]_vars

\* places in the file of the rows whose two designated cells are numbers
Numericas == {p \in 1..Len(bruta) : bruta[p][2] # <<>> /\ bruta[p][3] # <<>>}

\* the cleaned table holds exactly those rows, in the order of the file
ExatasEmOrdem ==
    /\ {limpa[k].pos : k \in 1..Len(limpa)} = Numericas
    /\ \A j, k \in 1..Len(limpa) : j < k => limpa[j].pos < limpa[k].pos
    /\ \A k \in 1..Len(limpa) :
          /\ limpa[k].deformacao_mm = bruta[limpa[k].pos][2]
          /\ limpa[k].forca_n = bruta[limpa[k].pos][3]

\* C18: cleaning drops exactly the rows with a non-numeric or missing cell in
\* one of the two designated columns (deformacao_mm, forca_n) and the rows
\* kept stay in their original order.
Cex_C18 == pc = "limpeza_done" => ExatasEmOrdem

\* index_auto.py cleans as the claim says
Lemma_Limpeza == (pc = "limpeza_done" /\ script = "index_auto") => ExatasEmOrdem

\* ------------------------------------------------ claims on the curve's frame
\* the curve as the normalization made it
CurvaNormalizada == Converter(dropna(arquivo.tabela), area_mm2)

\* C19: after the fixed-range extraction and during and after the window
\* search the curve's samples (values, order, length) are what they were
\* when the curve was made.
Thm_C19 ==
    (pc \in {"hunting_call", "scan", "hunting_ret"} \/ (pc = "cp_done" /\ resultado # None))
        => df_ensaio = CurvaNormalizada

\* both extractors ran on a curve: the fixed-range fit selected samples and
\* the search fitted windows
Wit_C19 ==
    /\ pc = "cp_done"
    /\ resultado # None
    /\ Gt(resultado.Pontos_Norma, Frac(1, 1))
    /\ IsNum(resultado.E_Norma)
    /\ Len(fitted) >= 2
    /\ Len(df_ensaio) = 5
    /\ df_ensaio = CurvaNormalizada

\* ------------------------------------------------ claims on the batch entries
\* the manifest entry of specimen c
Entrada(c) == geral[CHOOSE k \in 1..Len(geral) : geral[k].cp = c]

\* the valid entries handled so far whose processing gave a row, in order
RECURSIVE Esperadas(_)
Esperadas(n) ==
    IF n = 0 THEN <<>>
    ELSE LET e == cp_validos[n]
             res == processar_cp(e.cp, e.area[1], e.arquivo)
         IN  IF res = None THEN Esperadas(n - 1) ELSE Append(Esperadas(n - 1), res)

\* C20: the outcome of a manifest entry depends only on its own curve and
\* parameters: at every point of the loop each row is what processing its
\* entry alone gives, and an entry has its row whatever the entries before
\* it were and whether they failed.
Thm_C20 ==
    pc \in {"loop", "main_done"} =>
        /\ \A j \in 1..Len(resultados_list) :
              LET e == Entrada(resultados_list[j].CP)
              IN  resultados_list[j] = processar_cp(e.cp, e.area[1], e.arquivo)
        /\ resultados_list = Esperadas(index)

\* a manifest listed out of order whose first processed entry failed and
\* whose second gave a row
Wit_C20 ==
    /\ pc = "main_done"
    /\ Len(geral) = 2
    /\ geral[1].cp > geral[2].cp
    /\ Len(cp_validos) = 2
    /\ processar_cp(cp_validos[1].cp, cp_validos[1].area[1], cp_validos[1].arquivo) = None
    /\ Len(resultados_list) = 1
    /\ resultados_list[1].CP = cp_validos[2].cp

\* ------------------------------------------------ claims on the result order
\* the place of specimen c in the manifest
Lugar(c) == CHOOSE k \in 1..Len(geral) : geral[k].cp = c

\* C21: the rows of a batch result appear in manifest order: when entry A
\* precedes entry B in the manifest and both have a row, A's row precedes B's.
Cex_C21 ==
    pc = "main_done" =>
        \A j, k \in 1..Len(resultados_list) :
            j < k => Lugar(resultados_list[j].CP) < Lugar(resultados_list[k].CP)

\* the rows appear in the order of the specimen numbers
Lemma_Ordem ==
    \A j, k \in 1..Len(resultados_list) :
        j < k => resultados_list[j].CP < resultados_list[k].CP

\* ---------------------------------------------------------------------
\* fator.py: loading and zeroing of the calibration table
\* ---------------------------------------------------------------------

MaxLenCalib == 4

\* the cells of columns 1, 2, 3 of a line of the file: <<v>> for text that
\* to_numeric reads as v, <<>> for text it coerces to NaN
CelulasCalib == {<<>>, <<1>>, <<3>>} \X {<<0>>, <<2>>} \X {<<1>>, <<2>>}

\* dropna(subset = columns 1, 2, 3) keeps a line
LinhaValida(l) == l[1] # <<>> /\ l[2] # <<>> /\ l[3] # <<>>

\* lines 27-35: the renamed columns and the three zeroed columns of one line,
\* base being line 0 of the cleaned frame
Zerar(l, base) ==
    [Forca_kN        |-> l[1][1],
     Desl_LVDT_mm    |-> l[2][1],
     Desl_Pistao_mm  |-> l[3][1],
     Forca_Abs       |-> l[1][1] - base[1][1],
     Desl_LVDT_Abs   |-> Abs(l[2][1] - base[2][1]),
     Desl_Pistao_Abs |-> Abs(l[3][1] - base[3][1])]

carregar_e_limpar_dados_Ultima(file) ==
    IF file.status # "ok" THEN None
    ELSE LET lidas == file.linhas
             semUnidades == IF Len(lidas) > 0 THEN Tail(lidas) ELSE lidas
             validas == SelectSeq(semUnidades, LinhaValida)
         IN  IF validas = <<>> THEN [raised |-> "IndexError", linhas |-> <<>>]
             ELSE [raised |-> "",
                   linhas |-> [k \in 1..Len(validas) |->
                                  Zerar(validas[k], validas[Len(validas)])]]
carregar_e_limpar_dados(file) ==
    IF file.status # "ok" THEN None
    ELSE LET lidas == file.linhas
             semUnidades == IF Len(lidas) > 0 THEN Tail(lidas) ELSE lidas
             validas == SelectSeq(semUnidades, LinhaValida)
         IN  IF validas = <<>> THEN [raised |-> "IndexError", linhas |-> <<>>]
             ELSE [raised |-> "",
                   linhas |-> [k \in 1..Len(validas) |-> Zerar(validas[k], validas[1])]]

FatorInit ==
    /\ pc = "fator_start"
    /\ uploaded_file \in [status : {"ok", "ilegivel"},
                          linhas : SeqsUpTo(CelulasCalib, MaxLenCalib)]
    /\ df_fator = None
    /\ pontos = <<>>
    /\ ajuste = None
    /\ CpIdle
    /\ LoteIdle
    /\ FlexIdle
    /\ FaixaIdle
    /\ LimpezaIdle

\* line 56: the uploaded file is loaded; an exception outside the try ends the run
Fator_Carregar ==
    /\ pc = "fator_start"
    /\ df_fator' = carregar_e_limpar_dados(uploaded_file)
    /\ pc' = IF df_fator' = None THEN "fator_none"
             ELSE IF df_fator'.raised # "" THEN "fator_raised"
             ELSE "fator_done"
    /\ UNCHANGED <<uploaded_file, fitonly, cponly, loteonly, flexonly, faixaonly, limpezaonly>>

FatorNext == Fator_Carregar

SpecFator == FatorInit /\ [][FatorNext]_vars

\* the place in the file of the first line, after the units line, whose three
\* columns are all numeric
PrimeiraValida ==
    CHOOSE k \in 2..Len(uploaded_file.linhas) :
        /\ LinhaValida(uploaded_file.linhas[k])
        /\ \A j \in 2..(k - 1) : ~LinhaValida(uploaded_file.linhas[j])

\* the first sample of the zeroed table is the first valid line and reads 0
PrimeiraZerada ==
    LET primeira == df_fator.linhas[1]
        origem == uploaded_file.linhas[PrimeiraValida]
    IN  /\ primeira.Forca_kN = origem[1][1]
        /\ primeira.Desl_LVDT_mm = origem[2][1]
        /\ primeira.Desl_Pistao_mm = origem[3][1]
        /\ primeira.Forca_Abs = 0
        /\ primeira.Desl_LVDT_Abs = 0
        /\ primeira.Desl_Pistao_Abs = 0

\* C22 as stated: after the calibration table is zeroed, the first valid
\* sample reads force 0 and displacement 0 in both displacement columns, and
\* every sample is its reading minus the reading of the first valid sample.
Cex_C22 ==
    pc = "fator_done" =>
        /\ PrimeiraZerada
        /\ \A k \in 1..Len(df_fator.linhas) :
              LET l == df_fator.linhas[k]
                  origem == uploaded_file.linhas[PrimeiraValida]
              IN  /\ l.Forca_Abs = l.Forca_kN - origem[1][1]
                  /\ l.Desl_LVDT_Abs = l.Desl_LVDT_mm - origem[2][1]
                  /\ l.Desl_Pistao_Abs = l.Desl_Pistao_mm - origem[3][1]

\* C22 as amended: after the calibration table is zeroed, the first valid
\* sample reads force 0 and displacement 0 in both displacement columns, the
\* force of every sample is its reading minus the reading of the first valid
\* sample, and each displacement of every sample is the absolute value of its
\* reading minus the reading of the first valid sample.
Thm_C22 ==
    pc = "fator_done" =>
        /\ PrimeiraZerada
        /\ \A k \in 1..Len(df_fator.linhas) :
              LET l == df_fator.linhas[k]
                  origem == uploaded_file.linhas[PrimeiraValida]
              IN  /\ l.Forca_Abs = l.Forca_kN - origem[1][1]
                  /\ l.Desl_LVDT_Abs = Abs(l.Desl_LVDT_mm - origem[2][1])
                  /\ l.Desl_Pistao_Abs = Abs(l.Desl_Pistao_mm - origem[3][1])

\* a table whose first valid line comes after an invalid one and whose later
\* samples lie above and below the first in displacement
Wit_C22 ==
    /\ pc = "fator_done"
    /\ PrimeiraValida > 2
    /\ Len(df_fator.linhas) >= 2
    /\ df_fator.linhas[2].Desl_LVDT_mm < df_fator.linhas[1].Desl_LVDT_mm
    /\ df_fator.linhas[2].Forca_kN # df_fator.linhas[1].Forca_kN

\* ---------------------------------------------------------------------
\* one call of linregress, as processar_cp and hunting_E_best_R2 make it
\* ---------------------------------------------------------------------

MaxPontos == 3

\* the coordinates of the points: the lines y = 2x + 3, y = 3, y = x and
\* y = 3 - x pass through three of them each
Abscissas == {0, 1, 2}
Ordenadas == {0, 1, 2, 3, 5, 7}

Xs(p) == [k \in 1..Len(p) |-> p[k][1]]
Ys(p) == [k \in 1..Len(p) |-> p[k][2]]

FitInit ==
    /\ pc = "fit_start"
    /\ pontos \in SeqsUpTo(Abscissas \X Ordenadas, MaxPontos)
    /\ ajuste = None
    /\ uploaded_file = [status |-> "none", linhas |-> <<>>]
    /\ df_fator = None
    /\ CpIdle
    /\ LoteIdle
    /\ FlexIdle
    /\ FaixaIdle
    /\ LimpezaIdle

\* index_semiauto_data.py lines 84-90: the fit inside try, ValueError caught
Fit_Ajustar ==
    /\ pc = "fit_start"
    /\ ajuste' = linregress(Xs(pontos), Ys(pontos))
    /\ pc' = IF ajuste'.raised = "ValueError" THEN "fit_raised" ELSE "fit_done"
    /\ UNCHANGED <<pontos, fatoronly, cponly, loteonly, flexonly, faixaonly, limpezaonly>>

FitNext == Fit_Ajustar

SpecFit == FitInit /\ [][FitNext]_vars

\* every point lies on the line through the first point and point k
NaReta(k) ==
    \A j \in 1..Len(pontos) :
        (pontos[j][2] - pontos[1][2]) * (pontos[k][1] - pontos[1][1])
            = (pontos[k][2] - pontos[1][2]) * (pontos[j][1] - pontos[1][1])

\* the a and b of the line y = a*x + b through the first point and point k
Inclinacao(k) == Frac(pontos[k][2] - pontos[1][2], pontos[k][1] - pontos[1][1])
Ordenada0(k) ==
    Frac(pontos[1][2] * (pontos[k][1] - pontos[1][1])
             - (pontos[k][2] - pontos[1][2]) * pontos[1][1],
         pontos[k][1] - pontos[1][1])

\* C24: for at least 2 points with distinct x lying exactly on y = a*x + b,
\* the fit returns slope = a, intercept = b and r_squared = 1.
Cex_C24 ==
    (/\ pc \in {"fit_done", "fit_raised"}
     /\ Len(pontos) >= 2
     /\ \A j, k \in 1..Len(pontos) : j # k => pontos[j][1] # pontos[k][1]
     /\ NaReta(2))
    => /\ ajuste.raised = "no"
       /\ ajuste.slope = Inclinacao(2)
       /\ ajuste.intercept = Ordenada0(2)
       /\ ajuste.r_squared = Frac(1, 1)

\* C24 as amended: for at least 2 points with distinct x lying exactly on
\* y = a*x + b with a # 0 (e.g. y = 2x + 3), the fit returns slope = a,
\* intercept = b and r_squared = 1.
Thm_C24 ==
    \A k \in 2..Len(pontos) :
        (/\ pc \in {"fit_done", "fit_raised"}
         /\ pontos[k][1] # pontos[1][1]
         /\ NaReta(k)
         /\ Inclinacao(k) # Frac(0, 1))
        => /\ ajuste.raised = "no"
           /\ ajuste.slope = Inclinacao(k)
           /\ ajuste.intercept = Ordenada0(k)
           /\ ajuste.r_squared = Frac(1, 1)

\* three points of y = 2x + 3 have been fitted
Wit_C24 ==
    /\ pc = "fit_done"
    /\ Len(pontos) = 3
    /\ \A k \in 1..3 : pontos[k][2] = 2 * pontos[k][1] + 3
    /\ pontos[1][1] # pontos[2][1]
    /\ pontos[1][1] # pontos[3][1]
    /\ pontos[2][1] # pontos[3][1]

\* on a horizontal line through points of different x the fit gives slope 0,
\* the height of the line as intercept, and r_squared 0
Lemma_Horizontal ==
    (/\ pc \in {"fit_done", "fit_raised"}
     /\ \E k \in 2..Len(pontos) : pontos[k][1] # pontos[1][1]
     /\ \A k \in 1..Len(pontos) : pontos[k][2] = pontos[1][2])
    => /\ ajuste.raised = "no"
       /\ ajuste.slope = Frac(0, 1)
       /\ ajuste.intercept = Frac(pontos[1][2], 1)
       /\ ajuste.r_squared = Frac(0, 1)

\* ------------------------------------------- claims on the state of the scan
\* the windows fitted so far whose six values are the recorded best ones
JanelasDoMelhor ==
    {k \in Defined :
        LET fit == FitWindow(df_search, fitted[k].window_size, fitted[k].start_idx)
        IN  /\ best.best_r2_global = fit.r_squared
            /\ best.best_E_global = fit.slope
            /\ best.best_intercept_global = fit.intercept
            /\ best.best_start_idx_global = Frac(fitted[k].start_idx, 1)
            /\ best.best_end_idx_global =
                   Frac(fitted[k].start_idx + fitted[k].window_size - 1, 1)
            /\ best.best_window_size_global = Frac(fitted[k].window_size, 1)}

\* C25: at every step of the scan the recorded best slope, intercept, start
\* index, end index and window size belong to the same fitted window as the
\* recorded best r_squared, and before any window has been accepted the six
\* hold their initial values (-1.0, NaN, NaN, -1, -1, 0).
Thm_C25 ==
    pc = "scan" =>
        IF Defined = {}
        THEN /\ best.best_r2_global = Frac(-1, 1)
             /\ best.best_E_global = NaN
             /\ best.best_intercept_global = NaN
             /\ best.best_start_idx_global = Frac(-1, 1)
             /\ best.best_end_idx_global = Frac(-1, 1)
             /\ best.best_window_size_global = Frac(0, 1)
        ELSE JanelasDoMelhor # {}

\* the scan holds a best window that is not the window it fitted last
Wit_C25 ==
    /\ pc = "scan"
    /\ Len(fitted) >= 2
    /\ JanelasDoMelhor # {}
    /\ Len(fitted) \notin JanelasDoMelhor
    /\ fitted[Len(fitted)].raised = "no"

\* C26: whenever the search returns an accepted window, 0 <= start index <=
\* end index < max_sigma_index, end index - start index + 1 is the returned
\* window size, and the returned window size is one of R2_WINDOW_SIZES.
Thm_C26 ==
    (Scanned /\ Defined # {}) =>
        LET start == hunting.best_start_idx_global
            end == hunting.best_end_idx_global
            size == hunting.best_window_size_global
        IN  /\ start[2] = 1 /\ end[2] = 1 /\ size[2] = 1
            /\ 0 <= start[1]
            /\ start[1] <= end[1]
            /\ end[1] < max_sigma_index
            /\ end[1] - start[1] + 1 = size[1]
            /\ \E j \in 1..Len(R2_WINDOW_SIZES) : R2_WINDOW_SIZES[j] = size[1]

\* a window that ends on the last sample before the peak has been returned
Wit_C26 ==
    /\ Scanned
    /\ Defined # {}
    /\ hunting.best_start_idx_global[1] > 0
    /\ hunting.best_end_idx_global[1] = max_sigma_index - 1

\* the fits of a scan of a domain of n samples
Trabalho(n) ==
    SumSeq([j \in 1..Len(R2_WINDOW_SIZES) |->
                IF R2_WINDOW_SIZES[j] <= n
                THEN (n - R2_WINDOW_SIZES[j]) \div R2_STEP_SIZE + 1
                ELSE 0])

\* what is left of the two loops: the sizes still to come, then the starts
\* still to come of the current size
Restante ==
    (Len(R2_WINDOW_SIZES) + 1 - w) * (n_points + R2_STEP_SIZE + 1)
        + (n_points + R2_STEP_SIZE - i)

\* C29: the search terminates (every step of the scan lowers a natural number)
\* and when it returns it has made exactly the sum, over the window sizes not
\* larger than the domain, of floor((domain length - window_size)/step) + 1 fits.
Thm_C29 ==
    [][/\ (pc = "scan" /\ pc' = "scan") => (0 <= Restante' /\ Restante' < Restante)
       /\ (pc \in {"hunting_call", "scan"} /\ pc' = "hunting_ret")
              => Len(fitted') = Trabalho(n_points')]_vars

\* a scan in which the floor matters has returned
Wit_C29 ==
    /\ pc = "hunting_ret"
    /\ n_points = 4
    /\ Len(fitted) = 3

\* ------------------------------------- claims on the shrinking-prefix search
\* the file the loop of y_flexao.py handled last
Tratado == IF pc = "flex_raised" THEN f + 1 ELSE f

DfTratado == carregar_dados(uploaded_files[Tratado])

\* the rows of that file inside the force and deformation limits
FaixaTratada ==
    LET Fmax == SeqMax(Forca(DfTratado))
        Dentro(r) == /\ r.Forca_kN * 100 >= faixa[1] * Fmax
                     /\ r.Forca_kN * 100 <= faixa[2] * Fmax
                     /\ r.Deformacao_mm >= deform_min
                     /\ r.Deformacao_mm <= deform_max
    IN  SelectSeq(DfTratado, Dentro)

\* what the search returned for it
Busca ==
    buscar_intervalo_otimo(DfTratado, faixa[1], faixa[2], SeqMax(Forca(DfTratado)),
                           deform_min, deform_max)

\* the search ran on at least 5 points
Buscou == /\ pc \in {"flex_loop", "flex_raised", "flex_done"}
          /\ Tratado >= 1
          /\ DfTratado # <<>>
          /\ Len(FaixaTratada) >= 5

\* the prefix of the k-th fraction (k = 0 for 1.0) and its fit
Prefixo(k) == SubSeq(FaixaTratada, 1, NSub(Len(FaixaTratada), k))
AjusteDoPrefixo(k) == linregress(Deformacao(Prefixo(k)), Forca(Prefixo(k)))
Qualifica(k) ==
    /\ AjusteDoPrefixo(k).raised = "no"
    /\ Ge(AjusteDoPrefixo(k).r_squared, r2_min)
Qualificados == {k \in 0..(NFracs - 1) : Qualifica(k)}
Primeiro == CHOOSE k \in Qualificados : \A j \in Qualificados : k <= j

\* C27: the search reports automatico = True exactly when one of the prefixes
\* it tries, in decreasing size, has r2 >= r2_min, and then the returned slope,
\* intercept, subset and r2 are those of the first (largest) such prefix, with
\* returned r2 >= r2_min.
Thm_C27 ==
    (Buscou /\ Busca.raised = "no") =>
        /\ Busca.automatico <=> Qualificados # {}
        /\ Busca.automatico =>
              /\ Busca.slope = AjusteDoPrefixo(Primeiro).slope
              /\ Busca.intercept = AjusteDoPrefixo(Primeiro).intercept
              /\ Busca.df_reg = Prefixo(Primeiro)
              /\ Busca.r2 = AjusteDoPrefixo(Primeiro).r_squared
              /\ Ge(Busca.r2, r2_min)
              /\ \A j \in 0..(NFracs - 1) :
                     Len(Prefixo(j)) > Len(Prefixo(Primeiro)) => ~Qualifica(j)

\* a search has stopped on a prefix shorter than the range-filtered points
Wit_C27 ==
    /\ Buscou
    /\ pc = "flex_loop"
    /\ Busca.raised = "no"
    /\ Busca.automatico
    /\ Primeiro > 0
    /\ Len(Busca.df_reg) < Len(FaixaTratada)
    /\ resultados[Tratado].E0_GPa # None
    /\ resultados[Tratado].Ajuste = "Automatico"

\* the returned fit is the best of the tried prefixes, the largest on ties
MelhorDosTentados ==
    /\ Busca.raised = "no"
    /\ ~Busca.automatico
    /\ \E k \in 0..(NFracs - 1) :
          /\ Busca.df_reg = Prefixo(k)
          /\ Busca.slope = AjusteDoPrefixo(k).slope
          /\ Busca.intercept = AjusteDoPrefixo(k).intercept
          /\ Busca.r2 = AjusteDoPrefixo(k).r_squared
          /\ \A j \in 0..(NFracs - 1) :
                /\ AjusteDoPrefixo(j).raised = "no"
                /\ Ge(Busca.r2, AjusteDoPrefixo(j).r_squared)
                /\ Busca.r2 = AjusteDoPrefixo(j).r_squared
                       => Len(Prefixo(j)) <= Len(Prefixo(k))
    /\ Len(Busca.df_reg) >= 3
    /\ Busca.df_reg = SubSeq(FaixaTratada, 1, Len(Busca.df_reg))

\* C28: the search returns no fit when fewer than 5 points fall in the range;
\* otherwise, when no tried prefix reaches r2_min, it returns with automatico
\* = False the tried prefix with the highest r2, the largest on ties, a prefix
\* of the range-filtered points holding at least 3 points.
Cex_C28 ==
    /\ (/\ pc \in {"flex_loop", "flex_raised", "flex_done"}
        /\ Tratado >= 1
        /\ DfTratado # <<>>
        /\ Len(FaixaTratada) < 5)
       => (Busca.raised = "no" /\ Busca.slope = None /\ Busca.df_reg = None)
    /\ (Buscou /\ Qualificados = {}) => MelhorDosTentados

\* when no fit of the search raises, the fallback is as C28 says
Lemma_Fallback ==
    (Buscou /\ Qualificados = {} /\ Busca.raised = "no") => MelhorDosTentados

============================================================================
